---- MODULE Spec2Model ----
(***************************************************************************)
(* Model of the Expo module tooling:                                       *)
(*   - expo-module-mockgen.js  (type mapping and mock/stub generation)     *)
(*   - expo-module-getStructure (extraction of a module definition from    *)
(*     the sourcekitten declaration tree)                                  *)
(*                                                                         *)
(* JavaScript values are encoded as records [t |-> tag, v |-> payload]:    *)
(* null and undefined carry an empty payload, a string carries the         *)
(* sequence of its symbols and an array the sequence of its elements.      *)
(* A string is a sequence of symbols; the brackets "[" and "]" are single  *)
(* symbols, an identifier such as "Int" or "User" is one symbol.           *)
(***************************************************************************)
EXTENDS Integers, Sequences, FiniteSets, TLC

VARIABLES
    \* --- mapSwiftTypeToTsType applied to one type name
    typeName,       \* the type name handed to mapSwiftTypeToTsType
    mapped,         \* the node returned for typeName
    mappedWrapped,  \* the node returned for '[' + typeName + ']'
    pcMap,          \* "start" | "done"
    \* --- printModules over the extracted modules
    modules,        \* the module definitions mockgen iterates over
    mIdx,           \* index of the next module of the loop (1-based)
    written,        \* the mock files written so far, in order
    pcMock,         \* "run" | "done" | "threw"
    \* --- findModuleDefinitionInStructure on one structure
    tree,           \* the sourcekitten structure searched
    found,          \* the value the search returned
    pcFind,         \* "start" | "done"
    \* --- parseModuleDefinition on one module root
    moduleRoot,     \* the child sequence of the ModuleDefinition node
    cursorInfo,     \* the answers of `sourcekitten request`, per offset
    parseResult,    \* outcome of parseModuleDefinition
    pcParse,        \* "start" | "done" | "threw"
    \* --- findModuleDefinitionsInFiles over the globbed files
    swiftFiles,     \* the swift files of the run
    fIdx,           \* index of the next file of the loop
    logged,         \* the definitions printed so far
    errors,         \* indices of the files whose structure command failed
    pcRun           \* "run" | "done" | "threw"

mapVars   == <<typeName, mapped, mappedWrapped, pcMap>>
mockVars  == <<modules, mIdx, written, pcMock>>
findVars  == <<tree, found, pcFind>>
parseVars == <<moduleRoot, cursorInfo, parseResult, pcParse>>
runVars   == <<swiftFiles, fIdx, logged, errors, pcRun>>
vars      == <<mapVars, mockVars, findVars, parseVars, runVars>>

-----------------------------------------------------------------------------
(* JavaScript values *)

JNull      == [t |-> "null", v |-> <<>>]
JUndefined == [t |-> "undefined", v |-> <<>>]
Str(s)     == [t |-> "string", v |-> s]
Arr(s)     == [t |-> "array", v |-> s]

\* JavaScript truthiness of null, undefined, strings and arrays
Falsy(x) == x.t \in {"null", "undefined"} \/ (x.t = "string" /\ x.v = <<>>)
Truthy(x) == ~Falsy(x)

\* all sequences over S of length at most n
SeqsUpTo(S, n) == UNION {[1..k -> S] : k \in 0..n}

-----------------------------------------------------------------------------
(* expo-module-mockgen.js : TypeMapper *)

\* String.prototype.startsWith / endsWith for a one-symbol pattern
StartsWith(s, c) == Len(s) > 0 /\ s[1] = c
EndsWith(s, c)   == Len(s) > 0 /\ s[Len(s)] = c

\* String.prototype.substring(a, b), 0-based, end exclusive, arguments clamped
\* to [0, length] and swapped when a > b
Clamp(n, len) == IF n < 0 THEN 0 ELSE IF n > len THEN len ELSE n
Substring(s, a, b) ==
    LET ca == Clamp(a, Len(s))
        cb == Clamp(b, Len(s))
        lo == IF ca <= cb THEN ca ELSE cb
        hi == IF ca <= cb THEN cb ELSE ca
    IN  SubSeq(s, lo + 1, hi)

isSwiftArray(type) == StartsWith(type, "[") /\ EndsWith(type, "]")

\* a variant that keeps the closing bracket
maybeUnwrapSwiftArrayDropFirst(type) ==
    IF ~(StartsWith(type, "[") /\ EndsWith(type, "]")) THEN type
    ELSE Substring(type, 1, Len(type))

maybeUnwrapSwiftArray(type) ==
    IF ~(StartsWith(type, "[") /\ EndsWith(type, "]")) THEN type
    ELSE Substring(type, 1, Len(type) - 1)

\* TypeScript type nodes: kind, type arguments / element type, referenced name
KeywordTypeNode(k)        == [kind |-> k, args |-> <<>>, name |-> <<>>]
ArrayTypeNode(elem)       == [kind |-> "ArrayType", args |-> <<elem>>, name |-> <<>>]
TypeReferenceNode(n, as)  == [kind |-> "TypeReference", args |-> as, name |-> n]

RECURSIVE mapSwiftString(_)
mapSwiftString(s) ==
    IF s = <<>> THEN KeywordTypeNode("VoidKeyword")
    ELSE IF isSwiftArray(s) THEN ArrayTypeNode(mapSwiftString(maybeUnwrapSwiftArray(s)))
    ELSE IF s = <<"unknown">> THEN KeywordTypeNode("AnyKeyword")
    ELSE IF s = <<"String">> THEN KeywordTypeNode("StringKeyword")
    ELSE IF s = <<"Bool">> THEN KeywordTypeNode("BooleanKeyword")
    ELSE IF s \in {<<"Int">>, <<"Float">>, <<"Double">>} THEN KeywordTypeNode("NumberKeyword")
    ELSE TypeReferenceNode(s, <<>>)

\* the argument is null, undefined or a string
mapSwiftTypeToTsType(type) ==
    IF Falsy(type) THEN KeywordTypeNode("VoidKeyword") ELSE mapSwiftString(type.v)

-----------------------------------------------------------------------------
(* expo-module-mockgen.js : MockStubGenerator *)

\* the types object of a declaration: {parameters, returnType}, or null
TypesNull      == [t |-> "null", parameters |-> JUndefined, returnType |-> JUndefined]
TypesUndefined == [t |-> "undefined", parameters |-> JUndefined, returnType |-> JUndefined]
Types(ps, r)   == [t |-> "object", parameters |-> ps, returnType |-> r]

\* a parameter read from a closure carries typename, one read from the
\* annotated declaration carries nametype
ClosureParam(n, ty) == [name |-> n, typename |-> ty, nametype |-> JUndefined]
LookupParam(n, ty)  == [name |-> n, typename |-> JUndefined, nametype |-> ty]

ReturnStatement(e) == [kind |-> "ReturnStatement", expr |-> e]

\* a result that is either a value or a thrown TypeError
Ok(x)  == [threw |-> FALSE, val |-> x]
Threw  == [threw |-> TRUE, val |-> <<>>]

\* a variant that returns null for void
getMockReturnStatementsVoidReturns(tsReturnType) ==
    CASE tsReturnType.kind = "AnyKeyword"     -> Arr(<<ReturnStatement("null")>>)
      [] tsReturnType.kind = "StringKeyword"  -> Arr(<<ReturnStatement("''")>>)
      [] tsReturnType.kind = "BooleanKeyword" -> Arr(<<ReturnStatement("false")>>)
      [] tsReturnType.kind = "NumberKeyword"  -> Arr(<<ReturnStatement("0")>>)
      [] tsReturnType.kind = "VoidKeyword"    -> Arr(<<ReturnStatement("null")>>)
      [] tsReturnType.kind = "ArrayType"      -> Arr(<<ReturnStatement("[]")>>)
      [] OTHER                                -> JUndefined

\* the argument is always a node here, so the early return on a missing type
\* is never taken; the switch has no case for TypeReference: the function then
\* falls off its end and returns undefined
getMockReturnStatements(tsReturnType) ==
    CASE tsReturnType.kind = "AnyKeyword"     -> Arr(<<ReturnStatement("null")>>)
      [] tsReturnType.kind = "StringKeyword"  -> Arr(<<ReturnStatement("''")>>)
      [] tsReturnType.kind = "BooleanKeyword" -> Arr(<<ReturnStatement("false")>>)
      [] tsReturnType.kind = "NumberKeyword"  -> Arr(<<ReturnStatement("0")>>)
      [] tsReturnType.kind = "VoidKeyword"    -> Arr(<<>>)
      [] tsReturnType.kind = "ArrayType"      -> Arr(<<ReturnStatement("[]")>>)
      [] OTHER                                -> JUndefined

wrapWithAsync(tsType) == TypeReferenceNode(<<"Promise">>, <<tsType>>)

\* ts.factory.createBlock(statements): an absent statement list is an empty one
createBlock(statements) == IF statements.t = "array" THEN statements.v ELSE <<>>

\* reading fnStructure.types.returnType or calling .map on
\* fnStructure.types.parameters throws when types or parameters is missing
mockedFunctionThrows(fnStructure) ==
    fnStructure.types.t # "object" \/ fnStructure.types.parameters.t # "array"

mockedFunction(fnStructure, async) ==
    LET returnType == mapSwiftTypeToTsType(fnStructure.types.returnType)
        ps         == fnStructure.types.parameters.v
    IN  [kind       |-> "FunctionDeclaration",
         modifiers  |-> IF async THEN <<"export", "async">> ELSE <<"export">>,
         name       |-> fnStructure.name,
         parameters |-> [i \in 1..Len(ps) |->
                            [name |-> ps[i].name, type |-> mapSwiftTypeToTsType(ps[i].typename)]],
         type       |-> IF async THEN wrapWithAsync(returnType) ELSE returnType,
         body       |-> createBlock(getMockReturnStatements(returnType))]

getMockedFunctions(functions, async) ==
    IF \E i \in 1..Len(functions) : mockedFunctionThrows(functions[i]) THEN Threw
    ELSE Ok([i \in 1..Len(functions) |-> mockedFunction(functions[i], async)])

\* Object.values(module), in the order parseModuleDefinition writes the keys;
\* only the array-valued ones contribute (name and view do not)
moduleArrays(module) ==
    <<module.functions, module.asyncFunctions, module.events,
      module.properties, module.props, module.onCreate>>

RECURSIVE Flatten(_)
Flatten(ss) == IF ss = <<>> THEN <<>> ELSE Head(ss) \o Flatten(Tail(ss))

\* t2?.types : an event has no types key
typesOf(d) == IF "types" \in DOMAIN d THEN d.types ELSE TypesUndefined

\* types.parameters.forEach(...) and maybeUnwrapSwiftArray(typename) throw on a
\* missing types object, a missing parameter list or a missing typename
collectThrows(types) ==
    \/ types.t # "object"
    \/ types.parameters.t # "array"
    \/ \E i \in 1..Len(types.parameters.v) : types.parameters.v[i].typename.t # "string"

collectTypes(types) ==
    LET ps == types.parameters.v
    IN  [i \in 1..Len(ps) |-> maybeUnwrapSwiftArray(ps[i].typename.v)]
        \o (IF Truthy(types.returnType)
            THEN <<maybeUnwrapSwiftArray(types.returnType.v)>> ELSE <<>>)

\* new Set(array): first occurrences, in order
RECURSIVE SetOrder(_)
SetOrder(s) ==
    IF s = <<>> THEN <<>>
    ELSE LET init == SetOrder(SubSeq(s, 1, Len(s) - 1))
             last == s[Len(s)]
         IN  IF \E i \in 1..Len(init) : init[i] = last THEN init ELSE Append(init, last)

getTypesToMock(module) ==
    LET all == Flatten(moduleArrays(module))
    IN  IF \E i \in 1..Len(all) : collectThrows(typesOf(all[i])) THEN Threw
        ELSE LET foundTypes == Flatten([i \in 1..Len(all) |-> collectTypes(typesOf(all[i]))])
             IN  Ok(SetOrder(SelectSeq(foundTypes,
                        LAMBDA ft : mapSwiftTypeToTsType(Str(ft)).kind = "TypeReference")))

getMockedTypes(types) ==
    [i \in 1..Len(types) |->
        [kind |-> "TypeAliasDeclaration", modifiers |-> <<"export">>,
         name |-> types[i], type |-> KeywordTypeNode("AnyKeyword")]]

getMockForModule(module) ==
    LET types  == getTypesToMock(module)
        fns    == getMockedFunctions(module.functions, FALSE)
        asyncs == getMockedFunctions(module.asyncFunctions, TRUE)
    IN  IF types.threw \/ fns.threw \/ asyncs.threw THEN Threw
        ELSE Ok(getMockedTypes(types.val) \o fns.val \o asyncs.val)

-----------------------------------------------------------------------------
(* expo-module-getStructure : the sourcekitten structure *)

\* a node of the structure: key.kind, key.name, key.typename, key.offset,
\* key.length and key.substructure (undefined when the key is absent)
Node(kind, name, typename, offset, length, sub) ==
    [t |-> "node", kind |-> kind, name |-> name, typename |-> typename,
     offset |-> offset, length |-> length, sub |-> sub]

\* a result with the sourcekitten requests made on the way; an exception keeps
\* the requests made before it
R(val, reqs) == [threw |-> FALSE, val |-> val, reqs |-> reqs]
X(reqs)      == [threw |-> TRUE, val |-> <<>>, reqs |-> reqs]

\* array[i] (0-based) and optional chaining on key.substructure
At(a, i)  == IF a.t = "array" /\ i + 1 <= Len(a.v) THEN a.v[i + 1] ELSE JUndefined
SubOf(x)  == IF x.t = "node" THEN x.sub ELSE JUndefined

\* the results of a sequence of steps run in order: the values of all of them,
\* or the exception of the first one that throws
Collect(rs) ==
    LET bad == {i \in 1..Len(rs) : rs[i].threw}
        k   == IF bad = {} THEN Len(rs) ELSE CHOOSE i \in bad : \A j \in bad : i <= j
        rq  == Flatten([i \in 1..k |-> rs[i].reqs])
    IN  IF bad = {} THEN R([i \in 1..Len(rs) |-> rs[i].val], rq) ELSE X(rq)

\* null on a missing structure; the substructure of a ModuleDefinition node
\* (undefined when it has none); otherwise the first truthy result among the
\* children, null when a non-empty child list has none, and undefined when
\* there is no child list to search
RECURSIVE findModuleDefinitionInStructure(_)
\* a variant that returns whatever the first child gives
findFirstChildOnly(structure) ==
    IF structure.t # "node" THEN JNull
    ELSE IF structure.typename = Str(<<"ModuleDefinition">>) THEN structure.sub
    ELSE IF structure.sub.t = "array" /\ Len(structure.sub.v) > 0
         THEN findModuleDefinitionInStructure(structure.sub.v[1])
         ELSE JUndefined

findModuleDefinitionInStructure(structure) ==
    IF structure.t # "node" THEN JNull
    ELSE IF structure.typename = Str(<<"ModuleDefinition">>) THEN structure.sub
    ELSE IF structure.sub.t = "array" /\ Len(structure.sub.v) > 0
         THEN LET results == [i \in 1..Len(structure.sub.v) |->
                                 findModuleDefinitionInStructure(structure.sub.v[i])]
                  hits    == {i \in 1..Len(results) : Truthy(results[i])}
              IN  IF hits = {} THEN JNull
                  ELSE results[CHOOSE i \in hits : \A j \in hits : i <= j]
         ELSE JUndefined

\* file.content.substring(offset, offset + length).replaceAll('"', ''); reading
\* key.offset of a missing node throws
getIdentifierFromOffsetObject(offsetObject, file) ==
    IF offsetObject.t # "node" THEN X(<<>>)
    ELSE R(Str(SelectSeq(Substring(file.content, offsetObject.offset,
                                   offsetObject.offset + offsetObject.length),
                         LAMBDA c : c # "\"")), <<>>)

\* the answer of `sourcekitten request` for an offset of the file
InfoAt(file, offset) ==
    IF offset \in DOMAIN file.info THEN file.info[offset]
    ELSE [k |-> "fail", parameters |-> <<>>, returnType |-> JUndefined]

\* null without a request when the node is missing; undefined when the command
\* fails; the payload itself when it has no annotated declaration; otherwise
\* the parameters (name, nametype) and the return type of the declaration
getTypeFromOffsetObject(offsetObject, file) ==
    IF offsetObject.t # "node" THEN R(TypesNull, <<>>)
    ELSE LET a == InfoAt(file, offsetObject.offset)
         IN  R(CASE a.k = "fail" -> TypesUndefined
                 [] a.k = "raw"  -> Types(JUndefined, JUndefined)
                 [] OTHER        -> Types(Arr(a.parameters), a.returnType),
               <<offsetObject.offset>>)

hasSubstructure(structureObject) ==
    /\ structureObject.t = "node"
    /\ structureObject.sub.t = "array"
    /\ Len(structureObject.sub.v) > 0

parseClosureTypes(structureObject) ==
    LET cs      == SelectSeq(structureObject.sub.v,
                             LAMBDA s : s.kind = "source.lang.swift.expr.closure")
    IN  IF cs = <<>> THEN TypesNull
        ELSE LET closure == cs[1]
                 ps == IF closure.sub.t # "array" THEN JUndefined
                       ELSE LET f == SelectSeq(closure.sub.v,
                                        LAMBDA s : s.kind = "source.lang.swift.decl.var.parameter")
                            IN  Arr([i \in 1..Len(f) |-> ClosureParam(f[i].name, f[i].typename)])
             IN  Types(ps, Str(<<"unknown">>))

\* a variant that falls back to a request when the substructure holds no closure
typesOfChildWithFallback(child, file) ==
    IF hasSubstructure(child) /\ parseClosureTypes(child).t = "object"
    THEN R(parseClosureTypes(child), <<>>)
    ELSE getTypeFromOffsetObject(child, file)

\* if (hasSubstructure(child)) parseClosureTypes(child) else getTypeFromOffsetObject(child, file)
typesOfChild(child, file) ==
    IF hasSubstructure(child) THEN R(parseClosureTypes(child), <<>>)
    ELSE getTypeFromOffsetObject(child, file)

definitionsOfType(type, moduleDefinition) ==
    SelectSeq(moduleDefinition, LAMBDA md : md.name = Str(<<type>>))

\* indexing key.substructure of a node that has none throws
namedDefinition(d, file) ==
    IF d.sub.t # "array" THEN X(<<>>)
    ELSE LET name  == getIdentifierFromOffsetObject(At(d.sub, 0), file)
             types == typesOfChild(At(d.sub, 1), file)
         IN  IF name.threw THEN X(<<>>)
             ELSE R([name |-> name.val, types |-> types.val], types.reqs)

findNamedDefinitionsOfType(type, moduleDefinition, file) ==
    LET ds == definitionsOfType(type, moduleDefinition)
    IN  Collect([i \in 1..Len(ds) |-> namedDefinition(ds[i], file)])

unnamedDefinition(d, file) ==
    IF d.sub.t # "array" THEN X(<<>>)
    ELSE LET types == typesOfChild(At(d.sub, 0), file)
         IN  R([name |-> JNull, types |-> types.val], types.reqs)

findUnnamedDefinitionsOfType(type, moduleDefinition, file) ==
    LET ds == definitionsOfType(type, moduleDefinition)
    IN  Collect([i \in 1..Len(ds) |-> unnamedDefinition(ds[i], file)])

groupedDefinition(d, file) ==
    IF d.sub.t # "array" THEN X(<<>>)
    ELSE LET rs == Collect([i \in 1..Len(d.sub.v) |->
                               getIdentifierFromOffsetObject(d.sub.v[i], file)])
         IN  IF rs.threw THEN rs
             ELSE R([i \in 1..Len(rs.val) |-> [name |-> rs.val[i]]], <<>>)

findGroupedDefinitionsOfType(type, moduleDefinition, file) ==
    LET ds == definitionsOfType(type, moduleDefinition)
        rs == Collect([i \in 1..Len(ds) |-> groupedDefinition(ds[i], file)])
    IN  IF rs.threw THEN rs ELSE R(Flatten(rs.val), rs.reqs)

\* a variant that only drops the first parameter
keepParameterNotFirst(ps, i) == i # 1

\* parameters?.filter((t, idx) => idx !== 0 && t.name !== 'view')
keepParameter(ps, i) == i # 1 /\ ps[i].name # Str(<<"view">>)

filterParameters(parameters) ==
    IF parameters.t # "array" THEN JUndefined
    ELSE LET ps   == parameters.v
             keep == {i \in 1..Len(ps) : keepParameter(ps, i)}
             RECURSIVE pick(_)
             pick(i) == IF i > Len(ps) THEN <<>>
                        ELSE (IF i \in keep THEN <<ps[i]>> ELSE <<>>) \o pick(i + 1)
         IN  Arr(pick(1))

\* reading d.types.parameters throws when types is null or undefined
omitViewFromTypes(definitions) ==
    IF \E i \in 1..Len(definitions) : definitions[i].types.t # "object" THEN X(<<>>)
    ELSE R([i \in 1..Len(definitions) |->
               [name  |-> definitions[i].name,
                types |-> Types(filterParameters(definitions[i].types.parameters),
                                definitions[i].types.returnType)]], <<>>)

\* viewDefinition['key.substructure']?.[1]?.['key.substructure']?.[0]
\*     ?.['key.substructure']?.[0]?.['key.substructure']
viewModuleDefinitionOf(viewDefinition) ==
    SubOf(At(SubOf(At(SubOf(At(viewDefinition.sub, 1)), 0)), 0))

RECURSIVE parseModuleDefinition(_, _)

\* the nested definition without its view key, or null
findAndParseView(moduleDefinition, file) ==
    LET vs == definitionsOfType("View", moduleDefinition)
    IN  IF vs = <<>> THEN R(JNull, <<>>)
        ELSE LET viewModuleDefinition == viewModuleDefinitionOf(vs[1])
             IN  IF Falsy(viewModuleDefinition) THEN R(JNull, <<>>)
                 ELSE LET p == parseModuleDefinition(viewModuleDefinition.v, file)
                      IN  IF p.threw THEN p
                          ELSE R([k \in DOMAIN p.val \ {"view"} |-> p.val[k]], p.reqs)

parseModuleDefinition(moduleDefinition, file) ==
    LET names  == findNamedDefinitionsOfType("Name", moduleDefinition, file)
        found0 == findNamedDefinitionsOfType("Prop", moduleDefinition, file)
        omit   == IF found0.threw THEN found0 ELSE omitViewFromTypes(found0.val)
        rs == Collect(<<
                names,
                findNamedDefinitionsOfType("Function", moduleDefinition, file),
                findNamedDefinitionsOfType("AsyncFunction", moduleDefinition, file),
                findGroupedDefinitionsOfType("Events", moduleDefinition, file),
                findNamedDefinitionsOfType("Property", moduleDefinition, file),
                IF omit.threw THEN X(found0.reqs) ELSE R(omit.val, found0.reqs),
                findUnnamedDefinitionsOfType("OnCreate", moduleDefinition, file),
                findAndParseView(moduleDefinition, file) >>)
    IN  IF rs.threw THEN rs
        ELSE R([name           |-> IF rs.val[1] = <<>> THEN JUndefined ELSE rs.val[1][1].name,
                functions      |-> rs.val[2],
                asyncFunctions |-> rs.val[3],
                events         |-> rs.val[4],
                properties     |-> rs.val[5],
                props          |-> rs.val[6],
                onCreate       |-> rs.val[7],
                view           |-> rs.val[8]], rs.reqs)

\* a variant without the try/catch
getStructureFromFileThrows(file) ==
    IF file.structureOk THEN [threw |-> FALSE, val |-> file.structure, error |-> FALSE]
    ELSE [threw |-> TRUE, val |-> JUndefined, error |-> FALSE]

\* the JSON of `sourcekitten structure`, or undefined with the error logged
\* when the command fails or its output does not parse
getStructureFromFile(file) ==
    IF file.structureOk THEN [threw |-> FALSE, val |-> file.structure, error |-> FALSE]
    ELSE [threw |-> FALSE, val |-> JUndefined, error |-> TRUE]

-----------------------------------------------------------------------------
(* Idle values of the variable groups a specification does not use *)

MapIdle   == typeName = JNull /\ mapped = JUndefined /\ mappedWrapped = JUndefined /\ pcMap = "done"
MockIdle  == modules = <<>> /\ mIdx = 1 /\ written = <<>> /\ pcMock = "done"
FindIdle  == tree = JUndefined /\ found = JUndefined /\ pcFind = "done"
ParseIdle == moduleRoot = <<>> /\ cursorInfo = <<>> /\ parseResult = JUndefined /\ pcParse = "done"
RunIdle   == swiftFiles = <<>> /\ fIdx = 1 /\ logged = <<>> /\ errors = {} /\ pcRun = "done"

-----------------------------------------------------------------------------
(* Specification of the type mapper: one call of mapSwiftTypeToTsType on a  *)
(* type name and one on the same name in brackets                          *)

MaxLen == 3

Symbols == {"[", "]", "unknown", "String", "Bool", "Int", "Float", "Double", "User"}

InitMap ==
    /\ typeName \in {JNull} \cup {Str(s) : s \in SeqsUpTo(Symbols, MaxLen)}
    /\ mapped = JUndefined
    /\ mappedWrapped = JUndefined
    /\ pcMap = "start"
    /\ MockIdle /\ FindIdle /\ ParseIdle /\ RunIdle

MapSwiftType ==
    /\ pcMap = "start"
    /\ mapped' = mapSwiftTypeToTsType(typeName)
    /\ mappedWrapped' = mapSwiftTypeToTsType(Str(<<"[">> \o typeName.v \o <<"]">>))
    /\ pcMap' = "done"
    /\ UNCHANGED <<typeName, mockVars, findVars, parseVars, runVars>>

NextMap == MapSwiftType

SpecMap == InitMap /\ [][NextMap]_vars

-----------------------------------------------------------------------------
(* Specification of mockgen: printModules over the extracted modules       *)

MaxFns == 2

Ty(x)      == Str(<<x>>)
ArrayOf(t) == Str(<<"[">> \o t.v \o <<"]">>)
Name(x)    == Str(<<x>>)

Decl(n, types) == [name |-> n, types |-> types]

ReturnTypes ==
    {JNull, Str(<<>>), Ty("unknown"), Ty("String"), Ty("Bool"), Ty("Int"), Ty("Float"),
     Ty("Double"), Ty("User"), ArrayOf(Ty("Int")), ArrayOf(ArrayOf(Ty("User")))}

FnDecls ==
    {Decl(Name("f"), Types(Arr(<<>>), r)) : r \in ReturnTypes}
    \cup {Decl(Name("g"), Types(Arr(<<ClosureParam(Name("a"), Ty("User"))>>), Ty("User"))),
          Decl(Name("g"), Types(Arr(<<ClosureParam(Name("a"), ArrayOf(ArrayOf(Ty("Item")))),
                                      ClosureParam(Name("b"), ArrayOf(Ty("Item")))>>),
                                Ty("unknown"))),
          Decl(Name("h"), TypesNull)}

AsyncDecls ==
    {Decl(Name("af"), Types(Arr(<<>>), r)) :
        r \in {JNull, Ty("String"), Ty("User")}}

\* the members of a module that get no stub
NoExtras ==
    [events |-> <<>>, properties |-> <<>>, props |-> <<>>, onCreate |-> <<>>]
Extras ==
    {NoExtras,
     [NoExtras EXCEPT !.events = <<[name |-> Name("onChange")]>>],
     [NoExtras EXCEPT !.properties = <<Decl(Name("p"), Types(Arr(<<>>), Ty("Account")))>>],
     [NoExtras EXCEPT
        !.props = <<Decl(Name("q"),
                         Types(Arr(<<ClosureParam(Name("value"), ArrayOf(Ty("Color")))>>),
                               Ty("unknown")))>>,
        !.onCreate = <<Decl(JNull, Types(Arr(<<>>), Ty("unknown")))>>]}

Module(n, fns, asyncs, x) ==
    [name |-> n, functions |-> fns, asyncFunctions |-> asyncs, events |-> x.events,
     properties |-> x.properties, props |-> x.props, onCreate |-> x.onCreate,
     view |-> JNull]

ModuleSet ==
    {Module(Name("MyModule"), fns, asyncs, x) :
        fns \in SeqsUpTo(FnDecls, MaxFns),
        asyncs \in {<<>>} \cup {<<d>> : d \in AsyncDecls},
        x \in Extras}

SecondModule ==
    Module(Name("Other"), <<Decl(Name("f"), Types(Arr(<<>>), Ty("String")))>>, <<>>, NoExtras)

InitMock ==
    /\ \E m \in ModuleSet : modules \in {<<m>>, <<m, SecondModule>>}
    /\ mIdx = 1
    /\ written = <<>>
    /\ pcMock = "run"
    /\ MapIdle /\ FindIdle /\ ParseIdle /\ RunIdle

\* one iteration of the loop of printModules; an exception of getMockForModule
\* is not caught and ends the process
PrintModule ==
    /\ pcMock = "run"
    /\ mIdx <= Len(modules)
    /\ LET m    == modules[mIdx]
           mock == getMockForModule(m)
       IN  IF mock.threw
           THEN /\ pcMock' = "threw"
                /\ UNCHANGED <<mIdx, written>>
           ELSE /\ written' = Append(written, [file |-> m.name.v \o <<".ts">>, mock |-> mock.val])
                /\ mIdx' = mIdx + 1
                /\ pcMock' = IF mIdx = Len(modules) THEN "done" ELSE "run"
    /\ UNCHANGED <<modules, mapVars, findVars, parseVars, runVars>>

NextMock == PrintModule

SpecMock == InitMock /\ [][NextMock]_vars

-----------------------------------------------------------------------------
(* Specification of the search for the module definition                   *)

MaxNodes == 4

TreeNode(typename, sub) == Node("", JUndefined, typename, 0, 0, sub)

TypeTags == {Str(<<"ModuleDefinition">>), JUndefined}

\* the structures with n nodes, and the child lists with n nodes in all
RECURSIVE TreesOfSize(_), ForestsOfSize(_)
TreesOfSize(n) ==
    {TreeNode(ty, Arr(f)) : ty \in TypeTags, f \in ForestsOfSize(n - 1)}
    \cup (IF n = 1 THEN {TreeNode(ty, JUndefined) : ty \in TypeTags} ELSE {})
ForestsOfSize(n) ==
    IF n = 0 THEN {<<>>}
    ELSE UNION {{<<c>> \o f : c \in TreesOfSize(k), f \in ForestsOfSize(n - k)} : k \in 1..n}

InitFind ==
    /\ tree \in {JUndefined} \cup UNION {TreesOfSize(n) : n \in 1..MaxNodes}
    /\ found = JUndefined
    /\ pcFind = "start"
    /\ MapIdle /\ MockIdle /\ ParseIdle /\ RunIdle

FindModuleDefinition ==
    /\ pcFind = "start"
    /\ found' = findModuleDefinitionInStructure(tree)
    /\ pcFind' = "done"
    /\ UNCHANGED <<tree, mapVars, mockVars, parseVars, runVars>>

NextFind == FindModuleDefinition

SpecFind == InitFind /\ [][NextFind]_vars

-----------------------------------------------------------------------------
(* Specification of the extraction of one module definition                *)

MaxDecls == 2

\* the text of the swift file: quoted identifiers, three symbols each
Content ==
    <<"\"", "add", "\"", "\"", "value", "\"", "\"", "onChange", "\"", "\"", "Mod", "\"">>

Argument(offset, length, sub) ==
    Node("source.lang.swift.expr.argument", JUndefined, JUndefined, offset, length, sub)
Id(offset)        == Argument(offset, 3, JUndefined)
Parameter(n, ty)  ==
    Node("source.lang.swift.decl.var.parameter", Str(<<n>>), Str(<<ty>>), 0, 0, JUndefined)
Closure(ps)       ==
    Node("source.lang.swift.expr.closure", JUndefined, JUndefined, 0, 0, Arr(ps))
Call(label, sub)  ==
    Node("source.lang.swift.expr.call", Str(<<label>>), JUndefined, 0, 0, sub)

\* the type-carrying child: a closure, a reference to a function (no
\* substructure), or an expression whose substructure holds no closure
ClosureArg(offset, ps) == Argument(offset, 0, Arr(<<Closure(ps)>>))
RefArg(offset)         == Argument(offset, 0, JUndefined)
OtherArg(offset)       == Argument(offset, 0, Arr(<<Call("make", JUndefined)>>))

FunctionNodes ==
    {Call("Function", Arr(<<Id(0), ClosureArg(30, <<Parameter("a", "Int"), Parameter("b", "User")>>)>>)),
     Call("Function", Arr(<<Id(0), RefArg(20)>>)),
     Call("Function", JUndefined),
     Call("Function", Arr(<<>>)),
     Call("Function", Arr(<<Id(0)>>)),
     Call("Function", Arr(<<Id(0), OtherArg(25)>>)),
     Call("AsyncFunction", Arr(<<Id(0), RefArg(20)>>)),
     Call("Property", Arr(<<Id(3), RefArg(20)>>))}

PropNodes ==
    {Call("Prop", Arr(<<Id(3), ClosureArg(32, <<Parameter("ctx", "ViewRef"), Parameter("view", "ViewRef"),
                                                Parameter("color", "Color")>>)>>)),
     Call("Prop", Arr(<<Id(3), RefArg(23)>>)),
     Call("Prop", Arr(<<Id(3)>>))}

OtherNodes ==
    {Call("Name", Arr(<<Id(9)>>)),
     Call("Events", Arr(<<Id(6), Id(0)>>)),
     Call("OnCreate", Arr(<<ClosureArg(33, <<>>)>>))}

\* View(...) { ... }: the nested definition sits at
\* substructure[1].substructure[0].substructure[0].substructure
View(content) ==
    Call("View", Arr(<<Id(3), Argument(40, 0, Arr(<<Closure(<<Call("body", Arr(content))>>)>>))>>))

ViewNodes ==
    {View(<<View(<<Call("Prop", Arr(<<Id(3), RefArg(23)>>))>>),
            Call("Prop", Arr(<<Id(3), ClosureArg(32, <<Parameter("ctx", "ViewRef"),
                                                       Parameter("view", "ViewRef"),
                                                       Parameter("color", "Color")>>)>>))>>),
     Call("View", Arr(<<Id(3)>>))}

DeclNodes == FunctionNodes \cup PropNodes \cup OtherNodes \cup ViewNodes

LookupOffsets == {20, 23}

Answers ==
    {[k |-> "fail", parameters |-> <<>>, returnType |-> JUndefined],
     [k |-> "raw", parameters |-> <<>>, returnType |-> JUndefined],
     [k |-> "decl",
      parameters |-> <<LookupParam(Str(<<"view">>), Str(<<"ViewRef">>)),
                       LookupParam(Str(<<"value">>), Str(<<"Int">>))>>,
      returnType |-> Str(<<"String">>)]}

SwiftFile(path, info, ok, structure) ==
    [path |-> path, content |-> Content, info |-> info, structureOk |-> ok,
     structure |-> structure]

InitParse ==
    /\ moduleRoot \in SeqsUpTo(DeclNodes, MaxDecls)
    /\ cursorInfo \in [LookupOffsets -> Answers]
    /\ parseResult = JUndefined
    /\ pcParse = "start"
    /\ MapIdle /\ MockIdle /\ FindIdle /\ RunIdle

ParseModuleDefinition ==
    /\ pcParse = "start"
    /\ LET file == SwiftFile("Module.swift", cursorInfo, TRUE, JUndefined)
           r    == parseModuleDefinition(moduleRoot, file)
       IN  /\ parseResult' = r
           /\ pcParse' = IF r.threw THEN "threw" ELSE "done"
    /\ UNCHANGED <<moduleRoot, cursorInfo, mapVars, mockVars, findVars, runVars>>

NextParse == ParseModuleDefinition

SpecParse == InitParse /\ [][NextParse]_vars

-----------------------------------------------------------------------------
(* Specification of a run of findModuleDefinitionsInFiles                  *)

MaxFiles == 3

ModuleFile(path, info, root) ==
    SwiftFile(path, info, TRUE,
              TreeNode(JUndefined,
                       Arr(<<TreeNode(JUndefined,
                                      Arr(<<TreeNode(Str(<<"ModuleDefinition">>), root)>>))>>)))

AllFail == [o \in LookupOffsets |-> [k |-> "fail", parameters |-> <<>>, returnType |-> JUndefined]]
AllDecl == [o \in LookupOffsets |->
               [k |-> "decl",
                parameters |-> <<LookupParam(Str(<<"value">>), Str(<<"Int">>))>>,
                returnType |-> Str(<<"String">>)]]

FileSet ==
    {\* the structure command fails
     SwiftFile("Broken.swift", AllFail, FALSE, JUndefined),
     \* no ModuleDefinition in the file
     SwiftFile("Plain.swift", AllFail, TRUE, TreeNode(JUndefined, Arr(<<TreeNode(JUndefined, JUndefined)>>))),
     \* a module with a name, a closure function and events
     ModuleFile("Good.swift", AllFail,
                Arr(<<Call("Name", Arr(<<Id(9)>>)),
                      Call("Function", Arr(<<Id(0), ClosureArg(30, <<Parameter("a", "Int")>>)>>)),
                      Call("Events", Arr(<<Id(6)>>))>>)),
     \* a module whose function needs a type request
     ModuleFile("Lookup.swift", AllDecl, Arr(<<Call("AsyncFunction", Arr(<<Id(0), RefArg(20)>>))>>)),
     \* a module with a Function node without substructure
     ModuleFile("Malformed.swift", AllFail, Arr(<<Call("Function", JUndefined)>>)),
     \* a ModuleDefinition node without substructure
     ModuleFile("NoRoot.swift", AllFail, JUndefined)}

InitRun ==
    /\ swiftFiles \in SeqsUpTo(FileSet, MaxFiles) \ {<<>>}
    /\ fIdx = 1
    /\ logged = <<>>
    /\ errors = {}
    /\ pcRun = "run"
    /\ MapIdle /\ MockIdle /\ FindIdle /\ ParseIdle

\* one iteration of the loop of findModuleDefinitionsInFiles; an exception is
\* not caught and ends the run
ProcessFile ==
    /\ pcRun = "run"
    /\ fIdx <= Len(swiftFiles)
    /\ LET file == swiftFiles[fIdx]
           s    == getStructureFromFile(file)
           definition == findModuleDefinitionInStructure(s.val)
           r    == parseModuleDefinition(definition.v, file)
           next == IF fIdx = Len(swiftFiles) THEN "done" ELSE "run"
       IN  IF s.threw
           THEN /\ pcRun' = "threw"
                /\ UNCHANGED <<fIdx, logged, errors>>
           ELSE /\ errors' = IF s.error THEN errors \cup {fIdx} ELSE errors
                /\ IF Falsy(definition)
                   THEN /\ logged' = logged
                        /\ fIdx' = fIdx + 1
                        /\ pcRun' = next
                   ELSE IF r.threw
                   THEN /\ pcRun' = "threw"
                        /\ UNCHANGED <<fIdx, logged>>
                   ELSE /\ logged' = Append(logged, [file |-> fIdx, definition |-> r.val])
                        /\ fIdx' = fIdx + 1
                        /\ pcRun' = next
    /\ UNCHANGED <<swiftFiles, mapVars, mockVars, findVars, parseVars>>

NextRun == ProcessFile

SpecRun == InitRun /\ [][NextRun]_vars

-----------------------------------------------------------------------------
(* Claims about the type mapper (SpecMap) *)

IsBracketed(s) == Len(s) >= 2 /\ s[1] = "[" /\ s[Len(s)] = "]"

\* what the mapping table assigns to a type name that is not in brackets
TableType(type) ==
    IF type.t = "null" \/ type.v = <<>> THEN KeywordTypeNode("VoidKeyword")
    ELSE IF type.v = <<"unknown">> THEN KeywordTypeNode("AnyKeyword")
    ELSE IF type.v = <<"String">> THEN KeywordTypeNode("StringKeyword")
    ELSE IF type.v = <<"Bool">> THEN KeywordTypeNode("BooleanKeyword")
    ELSE IF type.v \in {<<"Int">>, <<"Float">>, <<"Double">>} THEN KeywordTypeNode("NumberKeyword")
    ELSE TypeReferenceNode(type.v, <<>>)

\* C8: mapping '[' + t + ']' gives the array of the mapping of t, for every
\* string t (empty and bracketed ones included); null and the empty string map
\* to void, 'unknown' to any, String/Bool/Int/Float/Double to their primitive
\* and every other string that is not in brackets to a reference to itself.
C8_WrapIsArrayOfMap ==
    pcMap = "done" =>
        /\ typeName.t = "string" => mappedWrapped = ArrayTypeNode(mapped)
        /\ (typeName.t = "null" \/ ~IsBracketed(typeName.v)) => mapped = TableType(typeName)

C8_Witness ==
    /\ pcMap = "done"
    /\ typeName = Str(<<"[", "User", "]">>)
    /\ mapped = ArrayTypeNode(TypeReferenceNode(<<"User">>, <<>>))
    /\ mappedWrapped = ArrayTypeNode(mapped)

-----------------------------------------------------------------------------
(* Claims about the generated mocks (SpecMock) *)

\* written[k] is the mock of modules[k]: the loop writes in order and stops at
\* the first exception
Stubs(mock)   == SelectSeq(mock, LAMBDA n : n.kind = "FunctionDeclaration")
Aliases(mock) == SelectSeq(mock, LAMBDA n : n.kind = "TypeAliasDeclaration")
StubbedDecls(m) == m.functions \o m.asyncFunctions

PrimitiveNames == {<<"String">>, <<"Bool">>, <<"Int">>, <<"Float">>, <<"Double">>}
IsVoidName(r)      == r.t = "null" \/ r.v = <<>>
IsArrayName(r)     == r.t = "string" /\ IsBracketed(r.v)
IsUnknownName(r)   == r.t = "string" /\ r.v = <<"unknown">>
IsReferenceName(r) ==
    /\ r.t = "string" /\ r.v # <<>> /\ ~IsBracketed(r.v)
    /\ r.v \notin PrimitiveNames /\ r.v # <<"unknown">>

\* C1: a stub whose return type maps to Reference or Unknown has exactly one
\* return statement, returning null.
C1_ReferenceReturnsNull ==
    \A k \in 1..Len(written) :
        LET ds    == StubbedDecls(modules[k])
            stubs == Stubs(written[k].mock)
        IN  /\ Len(stubs) = Len(ds)
            /\ \A j \in 1..Len(ds) :
                  (IsReferenceName(ds[j].types.returnType) \/ IsUnknownName(ds[j].types.returnType))
                      => stubs[j].body = <<ReturnStatement("null")>>

\* the literal the table gives for a return type name
TableLiteral(r) ==
    CASE r.v = <<"String">> -> "''"
      [] r.v = <<"Bool">>   -> "false"
      [] r.v \in {<<"Int">>, <<"Float">>, <<"Double">>} -> "0"
      [] OTHER -> "[]"

\* C2: sync or async, a Void return type gives a body without return statement;
\* String, Bool, a numeric primitive or an array gives exactly one return
\* statement with '', false, 0 or []; an async stub declares Promise<mapped
\* type> and returns the same literal as the sync stub.
C2_PrimitiveReturns ==
    \A k \in 1..Len(written) :
        LET m     == modules[k]
            ds    == StubbedDecls(m)
            stubs == Stubs(written[k].mock)
        IN  /\ Len(stubs) = Len(ds)
            /\ \A j \in 1..Len(ds) :
                  LET r == ds[j].types.returnType
                  IN  /\ IsVoidName(r) => stubs[j].body = <<>>
                      /\ (IsArrayName(r) \/ (r.t = "string" /\ r.v \in PrimitiveNames))
                            => stubs[j].body = <<ReturnStatement(TableLiteral(r))>>
                      /\ stubs[j].type =
                            IF j > Len(m.functions)
                            THEN TypeReferenceNode(<<"Promise">>, <<mapSwiftTypeToTsType(r)>>)
                            ELSE mapSwiftTypeToTsType(r)

C2_Witness ==
    /\ Len(written) >= 1
    /\ Len(modules[1].functions) = 2 /\ Len(modules[1].asyncFunctions) = 1
    /\ modules[1].functions[1].types.returnType = JNull
    /\ modules[1].functions[2].types.returnType = Ty("Double")
    /\ modules[1].asyncFunctions[1].types.returnType = Ty("String")
    /\ LET stubs == Stubs(written[1].mock)
       IN  /\ stubs[1].body = <<>>
           /\ stubs[2].body = <<ReturnStatement("0")>>
           /\ stubs[3].body = <<ReturnStatement("''")>>
           /\ stubs[3].type = TypeReferenceNode(<<"Promise">>, <<KeywordTypeNode("StringKeyword")>>)

\* a type name with all its enclosing bracket pairs removed
RECURSIVE FullUnwrap(_)
FullUnwrap(s) == IF IsBracketed(s) THEN FullUnwrap(SubSeq(s, 2, Len(s) - 1)) ELSE s

\* the type names a declaration mentions
MentionedTypes(d) ==
    {d.types.parameters.v[i].typename : i \in 1..Len(d.types.parameters.v)}
    \cup {d.types.returnType}

ReferencedNames(m) ==
    LET ds == m.functions \o m.asyncFunctions \o m.properties \o m.props \o m.onCreate
    IN  {FullUnwrap(r.v) : r \in {x \in UNION {MentionedTypes(ds[i]) : i \in 1..Len(ds)} :
                                      x.t = "string" /\ IsReferenceName(Str(FullUnwrap(x.v)))}}

\* C3: the aliases are exactly the names that some parameter or return type
\* refers to once its array brackets are removed at any depth, each once.
C3_AliasesAreReferencedNames ==
    \A k \in 1..Len(written) :
        LET al == Aliases(written[k].mock)
        IN  /\ {al[i].name : i \in 1..Len(al)} = ReferencedNames(modules[k])
            /\ \A i, j \in 1..Len(al) : al[i].name = al[j].name => i = j

\* C4: getMockForModule completes for every module definition and returns the
\* aliases, then one stub per function in order, then one per async function
\* in order, and nothing for events, properties, props and onCreate.
C4_ModuleMockCompletes ==
    /\ pcMock # "threw"
    /\ \A k \in 1..Len(written) :
          LET m     == modules[k]
              mock  == written[k].mock
              ds    == StubbedDecls(m)
              stubs == Stubs(mock)
          IN  /\ mock = Aliases(mock) \o stubs
              /\ Len(stubs) = Len(ds)
              /\ \A j \in 1..Len(ds) :
                    /\ stubs[j].name = ds[j].name
                    /\ stubs[j].modifiers =
                          IF j > Len(m.functions) THEN <<"export", "async">> ELSE <<"export">>
                    /\ stubs[j].type =
                          IF j > Len(m.functions)
                          THEN TypeReferenceNode(<<"Promise">>,
                                                 <<mapSwiftTypeToTsType(ds[j].types.returnType)>>)
                          ELSE mapSwiftTypeToTsType(ds[j].types.returnType)

-----------------------------------------------------------------------------
(* Claims about the search for the module definition (SpecFind) *)

IsMarker(n) == n.typename = Str(<<"ModuleDefinition">>)

\* the nodes of a structure in depth-first pre-order
RECURSIVE PreOrder(_)
PreOrder(n) ==
    IF n.t # "node" THEN <<>>
    ELSE <<n>> \o (IF n.sub.t = "array"
                   THEN Flatten([i \in 1..Len(n.sub.v) |-> PreOrder(n.sub.v[i])])
                   ELSE <<>>)

\* C10 as stated: the result is the child sequence of the first
\* ModuleDefinition node in pre-order, and it is falsy exactly when the
\* structure has no such node.
C10_FirstMarkerOrNull ==
    pcFind = "done" =>
        LET ms == SelectSeq(PreOrder(tree), IsMarker)
        IN  IF ms = <<>> THEN Falsy(found)
            ELSE Truthy(found) /\ found = ms[1].sub

\* C10 as amended: the result is the child sequence of the first node in
\* pre-order that is a ModuleDefinition node with a child sequence, and it is
\* falsy exactly when the structure has no such node.
C10_FirstMarkerWithChildren ==
    pcFind = "done" =>
        LET ms == SelectSeq(PreOrder(tree), LAMBDA n : IsMarker(n) /\ n.sub.t = "array")
        IN  IF ms = <<>> THEN Falsy(found)
            ELSE Truthy(found) /\ found = ms[1].sub

C10_Witness ==
    /\ pcFind = "done"
    /\ tree = TreeNode(JUndefined,
                       Arr(<<TreeNode(Str(<<"ModuleDefinition">>), JUndefined),
                             TreeNode(Str(<<"ModuleDefinition">>),
                                      Arr(<<TreeNode(JUndefined, JUndefined)>>))>>))
    /\ found = Arr(<<TreeNode(JUndefined, JUndefined)>>)

-----------------------------------------------------------------------------
(* Claims about the extraction of a module definition (SpecParse) *)

CountOfType(type) == Len(definitionsOfType(type, moduleRoot))

\* C5: extraction always returns a module definition, with one entry per
\* declaration node of each category, whatever children a node lacks and
\* whatever the type requests answer.
C5_ExtractionNeverAborts ==
    pcParse # "start" =>
        /\ ~parseResult.threw
        /\ Len(parseResult.val.functions) = CountOfType("Function")
        /\ Len(parseResult.val.asyncFunctions) = CountOfType("AsyncFunction")
        /\ Len(parseResult.val.properties) = CountOfType("Property")
        /\ Len(parseResult.val.props) = CountOfType("Prop")
        /\ Len(parseResult.val.onCreate) = CountOfType("OnCreate")

IsNullValue(x) == "t" \in DOMAIN x /\ x.t = "null"

\* the parameters left when the first one and those named "view" are removed
WithoutViewParameters(ps) ==
    IF ps = <<>> THEN <<>> ELSE SelectSeq(Tail(ps), LAMBDA p : p.name # Str(<<"view">>))

\* the props of the nested definition as read, before their parameters are cut
ViewPropsAsRead ==
    LET content == viewModuleDefinitionOf(definitionsOfType("View", moduleRoot)[1])
    IN  findNamedDefinitionsOfType("Prop", content.v,
                                   SwiftFile("Module.swift", cursorInfo, TRUE, JUndefined)).val

\* C6: a resolved view has no view key of its own, and each of its props has
\* lost its first parameter and every parameter named "view", the others
\* keeping their order.
C6_ViewIsFlatAndPropsCut ==
    (pcParse = "done" /\ ~IsNullValue(parseResult.val.view)) =>
        LET v == parseResult.val.view
        IN  /\ "view" \notin DOMAIN v
            /\ Len(v.props) = Len(ViewPropsAsRead)
            /\ \A i \in 1..Len(v.props) :
                  LET before == ViewPropsAsRead[i].types.parameters
                      after  == v.props[i].types.parameters
                  IN  /\ before.t = "array" => after = Arr(WithoutViewParameters(before.v))
                      /\ after.t = "array" =>
                            \A j \in 1..Len(after.v) : after.v[j].name # Str(<<"view">>)

C6_Witness ==
    /\ pcParse = "done"
    /\ Len(moduleRoot) = 1
    /\ definitionsOfType("View", viewModuleDefinitionOf(moduleRoot[1]).v) # <<>>
    /\ ~IsNullValue(parseResult.val.view)
    /\ "view" \notin DOMAIN parseResult.val.view
    /\ Len(parseResult.val.view.props) = 1
    /\ parseResult.val.view.props[1].types.parameters =
          Arr(<<ClosureParam(Str(<<"color">>), Str(<<"Color">>))>>)

\* the child of a declaration node that carries its types
TypeChild(d) == IF d.name = Str(<<"OnCreate">>) THEN At(d.sub, 0) ELSE At(d.sub, 1)

HasChildren(c)   == c.t = "node" /\ c.sub.t = "array" /\ c.sub.v # <<>>
ClosureShaped(c) ==
    HasChildren(c) /\ \E i \in 1..Len(c.sub.v) : c.sub.v[i].kind = "source.lang.swift.expr.closure"

\* whether a type request is due for the child: as claimed, whenever it is not
\* closure-shaped; as amended, whenever it has no substructure
RequestDue(c, asClaimed) ==
    c.t = "node" /\ (IF asClaimed THEN ~ClosureShaped(c) ELSE ~HasChildren(c))

TypedCategories == <<"Name", "Function", "AsyncFunction", "Property", "Prop", "OnCreate">>
KeptCategories  == <<"Function", "AsyncFunction", "Property", "Prop", "OnCreate">>

\* the nodes of a module root whose entries the definition keeps
NodesKept(root) ==
    Flatten([i \in 1..Len(KeptCategories) |-> definitionsOfType(KeptCategories[i], root)])

\* the declaration nodes of a module root in the order they are read, those of
\* the nested view last
RECURSIVE NodesRead(_)
NodesRead(root) ==
    LET own == Flatten([i \in 1..Len(TypedCategories) |->
                           definitionsOfType(TypedCategories[i], root)])
        vs  == definitionsOfType("View", root)
        nested == IF vs = <<>> THEN JUndefined ELSE viewModuleDefinitionOf(vs[1])
    IN  own \o (IF Truthy(nested) THEN NodesRead(nested.v) ELSE <<>>)

RequestsDue(root, asClaimed) ==
    LET due == SelectSeq(NodesRead(root), LAMBDA d : RequestDue(TypeChild(d), asClaimed))
    IN  [i \in 1..Len(due) |-> TypeChild(due[i]).offset]

\* the extracted entries of the module root, in the order of NodesKept
EntriesRead(def) ==
    def.functions \o def.asyncFunctions \o def.properties \o def.props \o def.onCreate

LocalTypesOk(root, def) ==
    LET nodes == NodesKept(root)
        es    == EntriesRead(def)
    IN  /\ Len(es) = Len(nodes)
        /\ \A i \in 1..Len(nodes) :
              ClosureShaped(TypeChild(nodes[i])) =>
                  /\ es[i].types.t = "object"
                  /\ es[i].types.parameters.t = "array"
                  /\ es[i].types.returnType = Str(<<"unknown">>)

\* C9 as stated: a closure-shaped type child gives locally derived types and
\* no request; every other type child gets a type request on its offset.
C9_RequestUnlessClosure ==
    pcParse = "done" =>
        /\ parseResult.reqs = RequestsDue(moduleRoot, TRUE)
        /\ LocalTypesOk(moduleRoot, parseResult.val)

\* C9 as amended: a type child with a non-empty substructure gets no request
\* (its types are derived from the closure in it, and are null when it holds
\* no closure); a type child without substructure gets a type request on its
\* offset.
C9_RequestIffNoSubstructure ==
    pcParse = "done" =>
        /\ parseResult.reqs = RequestsDue(moduleRoot, FALSE)
        /\ LocalTypesOk(moduleRoot, parseResult.val)
        /\ LET nodes == NodesKept(moduleRoot)
               es    == EntriesRead(parseResult.val)
           IN  \A i \in 1..Len(nodes) :
                  (HasChildren(TypeChild(nodes[i])) /\ ~ClosureShaped(TypeChild(nodes[i])))
                      => es[i].types = TypesNull

C9_Witness ==
    /\ pcParse = "done"
    /\ moduleRoot = <<Call("Function", Arr(<<Id(0), OtherArg(25)>>)),
                      Call("Function", Arr(<<Id(0), RefArg(20)>>))>>
    /\ parseResult.reqs = <<20>>
    /\ parseResult.val.functions[1].types = TypesNull

-----------------------------------------------------------------------------
(* Claims about a run over the files (SpecRun) *)

PathsWithModule == {"Good.swift", "Lookup.swift", "Malformed.swift"}

\* C7: a file whose structure command fails is skipped with a logged error and
\* contributes no definition; it never ends the run, and the files around it
\* are processed as they are without it, wherever it stands in the list.
C7_FailedFileIsSkipped ==
    /\ \A i \in 1..Len(logged) : swiftFiles[logged[i].file].structureOk
    /\ errors = {i \in 1..(fIdx - 1) : ~swiftFiles[i].structureOk}
    /\ pcRun = "threw" => swiftFiles[fIdx].structureOk
    /\ pcRun = "done" => fIdx = Len(swiftFiles) + 1
    /\ LET processed == SelectSeq([i \in 1..(fIdx - 1) |-> i],
                                  LAMBDA i : swiftFiles[i].path \in PathsWithModule)
       IN  [i \in 1..Len(logged) |-> logged[i].file] = processed

C7_Witness ==
    /\ pcRun = "done"
    /\ [i \in 1..Len(swiftFiles) |-> swiftFiles[i].path]
          = <<"Good.swift", "Broken.swift", "Lookup.swift">>
    /\ errors = {2}
    /\ [i \in 1..Len(logged) |-> logged[i].file] = <<1, 3>>
    /\ logged[2].definition.asyncFunctions[1].types.returnType = Str(<<"String">>)

====
